---- MODULE Spec2Model ----
(***************************************************************************)
(* Model of the list partitioning routines of imylu/utils.py:              *)
(*   split_list        in-place two-pointer partition by a pivot value     *)
(*   _split_list       reference partition that pops the front element     *)
(*   _test_split_list  harness that compares the two                       *)
(*                                                                         *)
(* Numbers are stored in half units (the value 3 is stored as 6), so that  *)
(* the median of an even-length list of integers is an integer here.       *)
(* Python lists are 0-indexed; a list is a TLA+ sequence and index i of    *)
(* the program is position i + 1 of the sequence.                          *)
(***************************************************************************)
EXTENDS Integers, Sequences, FiniteSets

\* Bounds of the model.
MaxLen == 3
MaxNum == 3
Margin == 1
Iterations == 2

VARIABLES
    nums,       \* the list split_list works on (nums1 in the harness)
    split,      \* the pivot value
    left,       \* first index of the range
    right,      \* one past the last index of the range
    p,          \* low cursor of split_list
    q,          \* high cursor of split_list
    break_tag,  \* break flag of split_list
    pc,         \* position inside split_list
    ret_1,      \* value returned by split_list (meaningful when pc = "done")
    err,        \* exception raised, or "none"
    nums0,      \* history: nums as it was when split_list was called
    touched,    \* history: indices split_list used in nums[...] in this call
    nswap,      \* history: number of swaps done in this call
    call,       \* history: number of calls of split_list so far
    nums2,      \* the list _split_list works on
    ret_2,      \* the two buckets of _split_list
    pc2,        \* position inside _split_list
    orig2,      \* history: nums2 as it was when _split_list was called
    pcT,        \* position inside _test_split_list
    it          \* number of trials started by _test_split_list

vars == <<nums, split, left, right, p, q, break_tag, pc, ret_1, err, nums0,
          touched, nswap, call, nums2, ret_2, pc2, orig2, pcT, it>>

splitVars == <<nums, split, left, right, p, q, break_tag, pc, ret_1, nums0,
               touched, nswap, call>>
refVars == <<nums2, ret_2, pc2, orig2>>
testVars == <<pcT, it>>

----------------------------------------------------------------------------
\* Input domains.

\* randint(1, max_num), in half units.
Vals == {2 * k : k \in 1..MaxNum}

\* Pivots: below, between, equal to and above the values.
Splits == 1..(2 * MaxNum + 1)

SeqsOfLen(n) == [1..n -> Vals]

Seqs == UNION {SeqsOfLen(n) : n \in 0..MaxLen}

\* Range arguments, a little beyond both ends of the list.
ArgRange(ns) == (0 - Margin)..(Len(ns) + Margin)

----------------------------------------------------------------------------
\* Python list primitives.

Min(a, b) == IF a < b THEN a ELSE b
Max(a, b) == IF a > b THEN a ELSE b

\* ns[i] raises IndexError unless -len <= i < len.
Valid(ns, i) == (0 - Len(ns)) <= i /\ i < Len(ns)

\* Position of index i in the sequence; a negative index counts from the end.
Pos(ns, i) == IF i < 0 THEN i + Len(ns) + 1 ELSE i + 1

\* ns[i]
Get(ns, i) == ns[Pos(ns, i)]

\* ns[i] = v
SetAt(ns, i, v) == [ns EXCEPT ![Pos(ns, i)] = v]

\* Clamping of a slice bound.
Norm(i, n) == IF i < 0 THEN Max(i + n, 0) ELSE Min(i, n)

\* ns[a:b]
Slice(ns, a, b) ==
    LET lo == Norm(a, Len(ns))
        hi == Norm(b, Len(ns))
    IN  IF lo >= hi THEN <<>> ELSE SubSeq(ns, lo + 1, hi)

\* Insertion of x into an ascending sequence.
RECURSIVE Insert(_, _)
Insert(x, s) ==
    IF s = <<>> THEN <<x>>
    ELSE IF x <= Head(s) THEN <<x>> \o s
    ELSE <<Head(s)>> \o Insert(x, Tail(s))

\* sorted(s)
RECURSIVE Sorted(_)
Sorted(s) == IF s = <<>> THEN <<>> ELSE Insert(Head(s), Sorted(Tail(s)))

\* statistics.median(s) of a non-empty list, in half units.
Median(s) ==
    LET t == Sorted(s)
        n == Len(s)
    IN  IF n % 2 = 1 THEN t[(n + 1) \div 2]
        ELSE (t[n \div 2] + t[n \div 2 + 1]) \div 2

\* all(a == b for a, b in zip(sorted(A), sorted(B)))
AllEqualZip(A, B) ==
    LET sa == Sorted(A)
        sb == Sorted(B)
    IN  \A i \in 1..Min(Len(sa), Len(sb)) : sa[i] = sb[i]

----------------------------------------------------------------------------
\* split_list

\* Variant of the left scan test that also passes over elements equal to the pivot.
ScanLeftCondTies(ns, i, s) == Get(ns, i) <= s

\* nums[p] < split
ScanLeftCond(ns, i, s) == Get(ns, i) < s

\* nums[q] >= split
ScanRightCond(ns, i, s) == Get(ns, i) >= s

\* Variant of the crossing test that lets a cursor go one step too far.
CrossedLate(lo, hi) == lo > hi + 1

\* p > q, tested after a cursor moved
Crossed(lo, hi) == lo > hi

\* Variant of the swap that overwrites nums[p] and loses its old value.
SwappedOverwrite(ns, i, j) == SetAt(ns, i, Get(ns, j))

\* nums[p], nums[q] = nums[q], nums[p]
Swapped(ns, i, j) ==
    LET vi == Get(ns, i)
        vj == Get(ns, j)
    IN  SetAt(SetAt(ns, i, vj), j, vi)

\* split_list(nums, s, l, r) is called: p = left; q = right - 1; break_tag = 0
Call(s, l, r) ==
    /\ pc \in {"idle", "done"}
    /\ split' = s
    /\ left' = l
    /\ right' = r
    /\ p' = l
    /\ q' = r - 1
    /\ break_tag' = 0
    /\ pc' = "scan_left"
    /\ nums0' = nums
    /\ touched' = {}
    /\ nswap' = 0
    /\ call' = call + 1
    /\ UNCHANGED <<nums, ret_1, err>>

\* One evaluation of "while nums[p] < split" and of the loop body.
ScanLeft ==
    /\ pc = "scan_left"
    /\ touched' = touched \cup {p}
    /\ IF ~Valid(nums, p)
       THEN /\ pc' = "error"
            /\ err' = "IndexError"
            /\ UNCHANGED <<p, break_tag>>
       ELSE IF ScanLeftCond(nums, p, split)
       THEN /\ p' = p + 1
            /\ IF Crossed(p + 1, q)
               THEN break_tag' = 1 /\ pc' = "scan_right"
               ELSE break_tag' = break_tag /\ pc' = "scan_left"
            /\ err' = err
       ELSE /\ pc' = "scan_right"
            /\ UNCHANGED <<p, break_tag, err>>
    /\ UNCHANGED <<nums, split, left, right, q, ret_1, nums0, nswap, call>>
    /\ UNCHANGED <<refVars, testVars>>

\* One evaluation of "while nums[q] >= split" and of the loop body.
ScanRight ==
    /\ pc = "scan_right"
    /\ touched' = touched \cup {q}
    /\ IF ~Valid(nums, q)
       THEN /\ pc' = "error"
            /\ err' = "IndexError"
            /\ UNCHANGED <<q, break_tag>>
       ELSE IF ScanRightCond(nums, q, split)
       THEN /\ q' = q - 1
            /\ IF Crossed(p, q - 1)
               THEN break_tag' = 1 /\ pc' = "check"
               ELSE break_tag' = break_tag /\ pc' = "scan_right"
            /\ err' = err
       ELSE /\ pc' = "check"
            /\ UNCHANGED <<q, break_tag, err>>
    /\ UNCHANGED <<nums, split, left, right, p, ret_1, nums0, nswap, call>>
    /\ UNCHANGED <<refVars, testVars>>

\* break_tag is 0: the two elements are swapped and the outer loop goes on.
Swap ==
    /\ pc = "check"
    /\ break_tag # 1
    /\ nums' = Swapped(nums, p, q)
    /\ touched' = touched \cup {p, q}
    /\ nswap' = nswap + 1
    /\ pc' = "scan_left"
    /\ UNCHANGED <<split, left, right, p, q, break_tag, ret_1, err, nums0, call>>
    /\ UNCHANGED <<refVars, testVars>>

\* break_tag is 1: the outer loop ends and p is returned.
Return ==
    /\ pc = "check"
    /\ break_tag = 1
    /\ ret_1' = p
    /\ pc' = "done"
    /\ UNCHANGED <<nums, split, left, right, p, q, break_tag, err, nums0,
                   touched, nswap, call>>
    /\ UNCHANGED <<refVars, testVars>>

\* A caller calls split_list on the list with any pivot and any range.
FirstCall ==
    /\ pcT = "none"
    /\ pc = "idle"
    /\ \E s \in Splits : \E l \in ArgRange(nums) : \E r \in ArgRange(nums) :
           Call(s, l, r)
    /\ UNCHANGED <<refVars, testVars>>

\* The caller calls split_list again, on the left segment it was given.
Repartition ==
    /\ pcT = "none"
    /\ pc = "done"
    /\ call = 1
    /\ 0 <= left /\ left < right /\ right <= Len(nums)
    /\ Call(split, left, ret_1)
    /\ UNCHANGED <<refVars, testVars>>

----------------------------------------------------------------------------
\* _split_list

\* Variant of the bucket test that sends elements equal to the pivot left.
RefCondTies(x, s) == x <= s

\* nums[0] < split
RefCond(x, s) == x < s

\* Variant of the append that inserts at the front of the bucket.
ListPrepend(l, x) == <<x>> \o l

\* ret[k].append(x)
ListAppend(l, x) == Append(l, x)

\* One evaluation of "while nums" with a non-empty list, and of the loop body.
RefStep ==
    /\ pc2 = "loop"
    /\ nums2 # <<>>
    /\ IF RefCond(Head(nums2), split)
       THEN ret_2' = <<ListAppend(ret_2[1], Head(nums2)), ret_2[2]>>
       ELSE ret_2' = <<ret_2[1], ListAppend(ret_2[2], Head(nums2))>>
    /\ nums2' = Tail(nums2)
    /\ UNCHANGED <<pc2, orig2>>
    /\ UNCHANGED <<splitVars, err, testVars>>

\* The list is empty: the loop ends and ret is returned.
RefReturn ==
    /\ pc2 = "loop"
    /\ nums2 = <<>>
    /\ pc2' = "done"
    /\ UNCHANGED <<nums2, ret_2, orig2>>
    /\ UNCHANGED <<splitVars, err, testVars>>

----------------------------------------------------------------------------
\* _test_split_list

\* ret_1 = split_list(nums1, split, left, right)
TestCallSplit ==
    /\ pcT = "line278"
    /\ pc = "idle"
    /\ Call(split, left, right)
    /\ UNCHANGED <<refVars, testVars>>

\* split_list has returned; ret_2 = _split_list(nums2, split)
TestCallRef ==
    /\ pcT = "line278"
    /\ pc = "done"
    /\ pcT' = "line282"
    /\ pc2' = "loop"
    /\ ret_2' = <<<<>>, <<>>>>
    /\ orig2' = nums2
    /\ UNCHANGED <<splitVars, err, nums2, it>>

\* _split_list has returned; the first assert
AssertLeft ==
    /\ pcT = "line282"
    /\ pc2 = "done"
    /\ IF AllEqualZip(Slice(nums, left, ret_1), ret_2[1])
       THEN pcT' = "line287" /\ err' = err
       ELSE pcT' = "failed" /\ err' = "AssertionError"
    /\ UNCHANGED <<splitVars, refVars, it>>

\* the second assert
AssertRight ==
    /\ pcT = "line287"
    /\ IF AllEqualZip(Slice(nums, ret_1, right), ret_2[2])
       THEN pcT' = "for" /\ err' = err
       ELSE pcT' = "failed" /\ err' = "AssertionError"
    /\ UNCHANGED <<splitVars, refVars, it>>

\* The next iteration of the for loop: a random list and its median.
NewTrial ==
    /\ pcT = "for"
    /\ it < Iterations
    /\ \E n \in 1..MaxLen : \E nums1 \in SeqsOfLen(n) :
          /\ nums' = nums1
          /\ nums2' = nums1
          /\ split' = Median(nums1)
          /\ left' = 0
          /\ right' = n
    /\ it' = it + 1
    /\ pcT' = "line278"
    /\ pc' = "idle"
    /\ pc2' = "idle"
    /\ UNCHANGED <<p, q, break_tag, ret_1, err, nums0, touched, nswap, call,
                   ret_2, orig2>>

\* The for loop is over: print("Test passed!")
PrintPassed ==
    /\ pcT = "for"
    /\ it = Iterations
    /\ pcT' = "passed"
    /\ UNCHANGED <<splitVars, err, refVars, it>>

----------------------------------------------------------------------------
\* Specifications.

\* A list on which split_list is about to be called.
Init ==
    /\ nums \in Seqs
    /\ split = 1
    /\ left = 0
    /\ right = 0
    /\ p = 0
    /\ q = 0
    /\ break_tag = 0
    /\ pc = "idle"
    /\ ret_1 = 0
    /\ err = "none"
    /\ nums0 = nums
    /\ touched = {}
    /\ nswap = 0
    /\ call = 0
    /\ nums2 = <<>>
    /\ ret_2 = <<<<>>, <<>>>>
    /\ pc2 = "idle"
    /\ orig2 = <<>>
    /\ pcT = "none"
    /\ it = 0

Next ==
    \/ FirstCall
    \/ ScanLeft
    \/ ScanRight
    \/ Swap
    \/ Return
    \/ Repartition

Spec == Init /\ [][Next]_vars

\* The interpreter always takes the next step of a running call.
FairSpec == Spec /\ WF_vars(Next)

\* _split_list has just been called with any list and any pivot.
InitRef ==
    /\ nums2 \in Seqs
    /\ split \in Splits
    /\ ret_2 = <<<<>>, <<>>>>
    /\ pc2 = "loop"
    /\ orig2 = nums2
    /\ nums = <<>>
    /\ left = 0
    /\ right = 0
    /\ p = 0
    /\ q = 0
    /\ break_tag = 0
    /\ pc = "idle"
    /\ ret_1 = 0
    /\ err = "none"
    /\ nums0 = <<>>
    /\ touched = {}
    /\ nswap = 0
    /\ call = 0
    /\ pcT = "none"
    /\ it = 0

NextRef ==
    \/ RefStep
    \/ RefReturn

SpecRef == InitRef /\ [][NextRef]_vars

FairSpecRef == SpecRef /\ WF_vars(NextRef)

\* The harness in its first trial, with any non-empty list and any pivot,
\* about to call split_list on one copy and _split_list on the other.
InitPair ==
    /\ \E n \in 1..MaxLen : nums \in SeqsOfLen(n)
    /\ nums2 = nums
    /\ split \in Splits
    /\ left = 0
    /\ right = Len(nums)
    /\ p = 0
    /\ q = 0
    /\ break_tag = 0
    /\ pc = "idle"
    /\ ret_1 = 0
    /\ err = "none"
    /\ nums0 = nums
    /\ touched = {}
    /\ nswap = 0
    /\ call = 0
    /\ ret_2 = <<<<>>, <<>>>>
    /\ pc2 = "idle"
    /\ orig2 = nums
    /\ pcT = "line278"
    /\ it = 1

NextPair ==
    \/ TestCallSplit
    \/ ScanLeft
    \/ ScanRight
    \/ Swap
    \/ Return
    \/ TestCallRef
    \/ RefStep
    \/ RefReturn
    \/ AssertLeft
    \/ AssertRight
    \/ NewTrial
    \/ PrintPassed

SpecPair == InitPair /\ [][NextPair]_vars

\* The harness in its last trial, both partitioners returned, about to
\* compare a segment with a bucket: any list, any boundary, any bucket.
InitCmp ==
    /\ nums \in Seqs
    /\ ret_1 \in 0..Len(nums)
    /\ \E B \in Seqs : ret_2 \in {<<B, <<>>>>, <<<<>>, B>>}
    /\ left = 0
    /\ right = Len(nums)
    /\ split = 1
    /\ p = 0
    /\ q = 0
    /\ break_tag = 0
    /\ pc = "done"
    /\ err = "none"
    /\ nums0 = nums
    /\ touched = {}
    /\ nswap = 0
    /\ call = 1
    /\ nums2 = <<>>
    /\ pc2 = "done"
    /\ orig2 = <<>>
    /\ pcT = "line282"
    /\ it = Iterations

NextCmp ==
    \/ AssertLeft
    \/ AssertRight
    \/ PrintPassed

SpecCmp == InitCmp /\ [][NextCmp]_vars

----------------------------------------------------------------------------
\* Vocabulary of the properties.

\* Number of occurrences of v in s.
Count(s, v) == Cardinality({i \in 1..Len(s) : s[i] = v})

\* a and b hold the same values the same number of times.
SameBag(a, b) ==
    /\ Len(a) = Len(b)
    /\ \A i \in 1..Len(a) : Count(a, a[i]) = Count(b, a[i])

\* The elements of s at indices lo..hi-1, for 0 <= lo and hi <= Len(s).
Segment(s, lo, hi) == [i \in 1..(hi - lo) |-> s[lo + i]]

\* The range of the current call lies inside the list.
WellFormed == 0 <= left /\ left <= right /\ right <= Len(nums)

NonEmpty == left < right

InCall == pc \in {"scan_left", "scan_right", "check", "done", "error"}

----------------------------------------------------------------------------
\* Properties of split_list.

\* C1: on a non-empty range inside the list, split_list returns an index
\* between left and right, every element of the range before it is smaller
\* than the pivot and every element of the range from it on is at least the
\* pivot.
C1_PartitionCorrect ==
    (pc = "done" /\ WellFormed /\ NonEmpty) =>
        /\ left <= ret_1
        /\ ret_1 <= right
        /\ \A i \in left..(ret_1 - 1) : nums[i + 1] < split
        /\ \A i \in ret_1..(right - 1) : nums[i + 1] >= split

C1_Witness ==
    /\ pc = "done"
    /\ call = 1
    /\ WellFormed
    /\ nswap > 0
    /\ left < ret_1
    /\ ret_1 < right
    /\ \E i \in ret_1..(right - 1) : nums[i + 1] = split

\* C2: on any range inside the list, empty ranges included, split_list
\* leaves every element outside the range as it was.
C2_OutsideUntouched ==
    (InCall /\ WellFormed) =>
        /\ Len(nums) = Len(nums0)
        /\ \A i \in 0..(Len(nums) - 1) :
              (i < left \/ i >= right) => nums[i + 1] = nums0[i + 1]

\* C3: on a non-empty range inside the list, the range after the call holds
\* the same values the same number of times as before, and the list keeps
\* its length.
C3_Permutation ==
    (InCall /\ WellFormed /\ NonEmpty) =>
        /\ Len(nums) = Len(nums0)
        /\ SameBag(Segment(nums, left, right), Segment(nums0, left, right))

C3_Witness ==
    /\ pc = "done"
    /\ call = 1
    /\ WellFormed
    /\ NonEmpty
    /\ nswap > 0
    /\ nums # nums0

\* C4: on an empty range inside the list, split_list returns left, raises no
\* error and leaves the list unchanged.
C4_EmptyRangeNoOp ==
    (InCall /\ WellFormed /\ left = right) =>
        /\ pc # "error"
        /\ nums = nums0
        /\ pc = "done" => ret_1 = left

\* C5: on a range that is not inside the list, split_list never returns an
\* index and never swaps.
C5_MalformedFails ==
    (InCall /\ ~WellFormed) =>
        /\ pc # "done"
        /\ nswap = 0

\* C7: after split_list returned p on a non-empty range inside the list,
\* calling it again on left..p with the same pivot leaves the list unchanged.
C7_RepartitionNoChange ==
    call = 2 => nums = nums0

\* C8: on a non-empty range inside the list, split_list returns without an
\* error, and every index it used lies in the range.
C8_TerminatesInBounds ==
    (pc = "scan_left" /\ touched = {} /\ WellFormed /\ NonEmpty)
        ~> (/\ pc = "done"
            /\ err = "none"
            /\ \A i \in touched : left <= i /\ i < right)

C8_Witness ==
    /\ pc = "done"
    /\ call = 1
    /\ WellFormed
    /\ right = left + 1
    /\ err = "none"
    /\ touched = {left}

----------------------------------------------------------------------------
\* Properties of _split_list.

\* C9: _split_list returns with its list emptied, the first bucket holding
\* the elements smaller than the pivot in their original order and the second
\* bucket the other elements in their original order.
C9_StableBuckets ==
    (pc2 = "loop" /\ nums2 = orig2)
        ~> (/\ pc2 = "done"
            /\ nums2 = <<>>
            /\ ret_2[1] = SelectSeq(orig2, LAMBDA x : x < split)
            /\ ret_2[2] = SelectSeq(orig2, LAMBDA x : ~(x < split))
            /\ SameBag(ret_2[1] \o ret_2[2], orig2))

C9_Witness ==
    /\ pc2 = "done"
    /\ pcT = "none"
    /\ Len(ret_2[1]) >= 1
    /\ Len(ret_2[2]) >= 2
    /\ ret_2[2][1] # ret_2[2][2]
    /\ orig2[1] >= split

----------------------------------------------------------------------------
\* Properties of the harness.

\* C6: after both partitioners ran on copies of a non-empty list over the
\* full range, the segment before the returned index holds the same values
\* as the first bucket, and the segment from it on the same values as the
\* second bucket.
C6_CrossOracle ==
    (pcT = "line282" /\ pc2 = "done") =>
        /\ 0 <= ret_1
        /\ ret_1 <= Len(nums)
        /\ SameBag(Segment(nums, 0, ret_1), ret_2[1])
        /\ SameBag(Segment(nums, ret_1, Len(nums)), ret_2[2])

C6_Witness ==
    /\ pcT = "line282"
    /\ pc2 = "done"
    /\ it = 1
    /\ nswap > 0
    /\ Len(ret_2[1]) >= 1
    /\ Len(ret_2[2]) >= 1
    /\ split \notin Vals

====
